---- MODULE Spec2Model ----
(***************************************************************************)
(* Model of the name-exchange engine of rs-NameExchanger                   *)
(* (lib/lib.rs, lib/file_rename.rs, lib/path_checkout.rs).                 *)
(*                                                                         *)
(* A file name is a sequence of characters, a path is a sequence of file   *)
(* names below the filesystem root, and the filesystem is a function from  *)
(* the existing paths to their kind and content.  exchange() is modelled   *)
(* in two parts: the action exchange(p1, p2) is lib.rs lines 20-136 up to  *)
(* the call of rename_each, and the action rename_each performs the        *)
(* std::fs::rename calls of that function one after the other, because a   *)
(* failing rename leaves the earlier ones in place.                        *)
(***************************************************************************)
EXTENDS Integers, Sequences, FiniteSets, TLC

VARIABLES
    fs,           \* the filesystem: existing path -> [kind, id]
    pc,           \* "idle" | "rename" | "done"
    packed_path,  \* GetPathInfo {path1, path2} of the running call
    all_infos,    \* NameExchange {f1, f2} of the running call
    is_nested,    \* rename_each's parameter is_nested
    file1_first,  \* rename_each's parameter file1_first
    step,         \* number of the next rename of rename_each
    result,       \* the code exchange returned (meaningful when pc = "done")
    log,          \* the std::fs::rename calls issued by the running call
    pre,          \* the filesystem when the running call started
    prepre,       \* the filesystem when the previous call started
    chained       \* the running call was made on the previous call's new paths

vars == <<fs, pc, packed_path, all_infos, is_nested, file1_first, step,
          result, log, pre, prepre, chained>>

(***************************************************************************)
(* Bounds of the model.                                                    *)
(***************************************************************************)
MaxEntries == 3

MaxDepth == 3

(***************************************************************************)
(* File names.  GUID stands for the 17 characters of the reserved staging  *)
(* name, which no other character of the model can spell.                  *)
(***************************************************************************)
GUID == <<"G">>

Dot == "."

Names ==
    { <<"a">>, <<"b">>, <<"a", Dot, "t">>, <<"a", Dot, "t", Dot, "t">>, GUID }

Kinds == {"file", "dir"}

Root == << >>

(***************************************************************************)
(* std::path as the code uses it.                                          *)
(***************************************************************************)
None == [some |-> FALSE, v |-> << >>]

Some(s) == [some |-> TRUE, v |-> s]

\* Path::parent of a path that has a file name
parent(p) == SubSeq(p, 1, Len(p) - 1)

\* Path::file_name
file_name(p) == p[Len(p)]

\* PathBuf::push of one relative component; pushing "" adds no component
push(dir, name) == IF name = << >> THEN dir ELSE Append(dir, name)

\* index of the last '.' of a name, 0 when there is none
LastDot(n) ==
    LET dots == {i \in 1..Len(n) : n[i] = Dot}
    IN  IF dots = {} THEN 0 ELSE CHOOSE i \in dots : \A j \in dots : j <= i

\* std's rsplit_file_at_dot, given the index d of the last '.' of the name:
\* <<before, after>>
SplitAt(n, d) ==
    IF n = <<Dot, Dot>> THEN <<Some(n), None>>
    ELSE IF d = 0 THEN <<None, Some(n)>>
    ELSE IF d = 1 THEN <<Some(n), None>>
    ELSE <<Some(SubSeq(n, 1, d - 1)), Some(SubSeq(n, d + 1, Len(n)))>>

rsplit_file_at_dot(n) == SplitAt(n, LastDot(n))

\* Option::or and Option::and of a pair <<before, after>>
OptionOr(s) == IF s[1].some THEN s[1] ELSE s[2]

OptionAnd(s) == IF s[1].some THEN s[2] ELSE None

\* Path::file_stem: before.or(after)
file_stem(p) == OptionOr(rsplit_file_at_dot(file_name(p)))

\* Path::extension: before.and(after)
extension(p) == OptionAnd(rsplit_file_at_dot(file_name(p)))

\* Path::strip_prefix(base).is_ok(): base is a component-wise prefix
IsPrefix(base, p) ==
    /\ Len(base) <= Len(p)
    /\ SubSeq(p, 1, Len(base)) = base

(***************************************************************************)
(* The filesystem.                                                         *)
(***************************************************************************)
Exists(f, p) == p = Root \/ p \in DOMAIN f

IsDir(f, p) == p = Root \/ (p \in DOMAIN f /\ f[p].kind = "dir")

IsFile(f, p) == p \in DOMAIN f /\ f[p].kind = "file"

Children(f, p) == {q \in DOMAIN f : Len(q) = Len(p) + 1 /\ IsPrefix(p, q)}

\* a filesystem with one more entry, placed in one of its directories; the
\* content of an entry is identified by the path it was created at
Extend(f) ==
    { f @@ (push(x[1], x[2]) :> [kind |-> x[3], id |-> push(x[1], x[2])]) :
        x \in { y \in ({Root} \cup DOMAIN f) \X Names \X Kinds :
                  /\ IsDir(f, y[1])
                  /\ Len(y[1]) < MaxDepth
                  /\ push(y[1], y[2]) \notin DOMAIN f } }

RECURSIVE FsOfSize(_)
FsOfSize(n) ==
    IF n = 0 THEN { << >> } ELSE UNION { Extend(f) : f \in FsOfSize(n - 1) }

Filesystems == UNION { FsOfSize(n) : n \in 0..MaxEntries }

(***************************************************************************)
(* std::fs::rename.  OsResults is what the namespace alone lets the call   *)
(* return; where the platforms differ (POSIX rename(2) against Windows     *)
(* MoveFileExW) every platform's answer is in the set.  EnvFaults are the  *)
(* failures the operating system may report for any rename (access rights, *)
(* locks, a full or read-only volume).                                     *)
(***************************************************************************)
OsResults(f, from, to) ==
    IF from \notin DOMAIN f THEN {"Other"}                   \* NotFound
    ELSE IF from = to THEN {"Ok"}                            \* nothing to do
    ELSE IF ~IsDir(f, parent(to)) THEN {"Other"}             \* NotFound
    ELSE IF IsPrefix(from, to) THEN {"Other", "PermissionDenied"}
    ELSE IF to \in DOMAIN f
         THEN IF IsFile(f, from) /\ IsFile(f, to) THEN {"Ok"}   \* replaced
              ELSE IF /\ IsDir(f, from) /\ IsDir(f, to)
                      /\ Children(f, to) = {}
                   THEN {"Ok", "PermissionDenied"}
                   ELSE {"Other", "PermissionDenied"}
    ELSE {"Ok"}

EnvFaults == {"PermissionDenied", "AlreadyExists", "Other"}

\* the filesystem after a successful rename: the entry and all below it move
\* to the destination, whatever was at the destination is gone
FsRename(f, from, to) ==
    IF from = to THEN f
    ELSE LET moved  == {q \in DOMAIN f : IsPrefix(from, q)}
             gone   == {q \in DOMAIN f : IsPrefix(to, q)}
             target(q) == to \o SubSeq(q, Len(from) + 1, Len(q))
             source(q) == from \o SubSeq(q, Len(to) + 1, Len(q))
             dom    == ((DOMAIN f \ moved) \ gone) \cup {target(q) : q \in moved}
         IN  [q \in dom |-> IF IsPrefix(to, q) THEN f[source(q)] ELSE f[q]]

(***************************************************************************)
(* lib/path_checkout.rs                                                    *)
(***************************************************************************)
\* GetPathInfo::if_exist on absolute paths
if_exist(f, path1, path2) == <<Exists(f, path1), Exists(f, path2)>>

\* GetPathInfo::if_file
if_file(f, path1, path2) == <<IsFile(f, path1), IsFile(f, path2)>>

\* GetPathInfo::if_same_dir
if_same_dir(path1, path2) == parent(path1) = parent(path2)

\* GetPathInfo::path_is_parent
path_is_parent(potential_parent, potential_child) ==
    IsPrefix(potential_parent, potential_child)

\* if_root without its second test
if_rootFirstOnly(path1, path2) ==
    IF path_is_parent(path1, path2) THEN 1 ELSE 0

\* GetPathInfo::if_root
if_root(path1, path2) ==
    IF path_is_parent(path1, path2) THEN 1
    ELSE IF path_is_parent(path2, path1) THEN 2
    ELSE 0

\* the closure get_string_closure of get_info
get_string_closure(original_result, is_ext) ==
    IF original_result.some
    THEN IF is_ext THEN <<Dot>> \o original_result.v ELSE original_result.v
    ELSE << >>

\* the MetadataCollection get_info builds from the stem, the extension (with
\* its dot) and the parent it has read from the path
Metadata(stem, ext, dir, is_file) ==
    IF ~is_file
    THEN [name |-> stem \o ext, ext |-> << >>, parent_dir |-> dir]
    ELSE [name |-> stem, ext |-> ext, parent_dir |-> dir]

\* get_info without its branch for directories
get_infoNoDirBranch(file_path, is_file) ==
    Metadata(get_string_closure(file_stem(file_path), FALSE),
             get_string_closure(extension(file_path), TRUE),
             parent(file_path), TRUE)

\* GetPathInfo::get_info
get_info(file_path, is_file) ==
    Metadata(get_string_closure(file_stem(file_path), FALSE),
             get_string_closure(extension(file_path), TRUE),
             parent(file_path), is_file)

\* GetPathInfo::metadata_collect
metadata_collect(path1, path2, is_file1, is_file2) ==
    <<get_info(path1, is_file1), get_info(path2, is_file2)>>

(***************************************************************************)
(* lib/file_rename.rs                                                      *)
(***************************************************************************)
\* NameExchange::make_name: <<temporary path, final path>>
make_name(dir, other_name, ext) ==
    <<push(dir, GUID \o ext), push(dir, other_name \o ext)>>

\* handle_rename without its arm for PermissionDenied
handle_renameNoDenied(res) ==
    CASE res = "Ok" -> 0
      [] res = "AlreadyExists" -> 3
      [] OTHER -> 255

\* NameExchange::handle_rename: the code returned for a rename's result
handle_rename(res) ==
    CASE res = "Ok" -> 0
      [] res = "PermissionDenied" -> 2
      [] res = "AlreadyExists" -> 3
      [] OTHER -> 255

\* FileInfos::default
DefaultInfo ==
    [is_exist |-> FALSE, is_file |-> FALSE,
     name |-> << >>, ext |-> << >>, parent_dir |-> Root,
     original_path |-> Root, new_path |-> Root, pre_path |-> Root]

\* NameExchange::new
NewNameExchange == [f1 |-> DefaultInfo, f2 |-> DefaultInfo]

\* rename_each with its variables left as prepared for file1_first = true
RenamePlanFile1First(infos, first) ==
    [path1 |-> infos.f1.original_path, final_name1 |-> infos.f1.new_path,
     path2 |-> infos.f2.original_path, final_name2 |-> infos.f2.new_path,
     tmp_name2 |-> infos.f2.pre_path]

\* the local variables rename_each prepares from file1_first
RenamePlan(infos, first) ==
    IF first
    THEN [path1 |-> infos.f1.original_path, final_name1 |-> infos.f1.new_path,
          path2 |-> infos.f2.original_path, final_name2 |-> infos.f2.new_path,
          tmp_name2 |-> infos.f2.pre_path]
    ELSE [path1 |-> infos.f2.original_path, final_name1 |-> infos.f2.new_path,
          path2 |-> infos.f1.original_path, final_name2 |-> infos.f1.new_path,
          tmp_name2 |-> infos.f1.pre_path]

\* rename_each with the first entry renamed before the second is staged
StepsOfDirectFirst(v, nested) ==
    IF nested
    THEN << <<v.path1, v.final_name1>>, <<v.path2, v.final_name2>> >>
    ELSE << <<v.path1, v.final_name1>>, <<v.path2, v.tmp_name2>>,
            <<v.tmp_name2, v.final_name2>> >>

\* the std::fs::rename calls of rename_each, in the order it issues them
StepsOf(v, nested) ==
    IF nested
    THEN << <<v.path1, v.final_name1>>, <<v.path2, v.final_name2>> >>
    ELSE << <<v.path2, v.tmp_name2>>, <<v.path1, v.final_name1>>,
            <<v.tmp_name2, v.final_name2>> >>

RenameSteps(infos, nested, first) == StepsOf(RenamePlan(infos, first), nested)

(***************************************************************************)
(* lib/lib.rs: exchange                                                    *)
(***************************************************************************)
\* line 48 with && in place of ||
MissingCheckBoth(exist1, exist2) == (~exist1) /\ (~exist2)

\* lib.rs line 48: one of the two paths does not exist
MissingCheck(exist1, exist2) == (~exist1) \/ (~exist2)

\* line 51 left out
IdentityCheckNever(path1, path2) == FALSE

\* lib.rs line 51: the two paths are the same
IdentityCheck(path1, path2) == path1 = path2

\* line 85 with && in place of ||
CollisionCheckBoth(same_dir, exist_new_1, exist_new_2) ==
    ~same_dir /\ (exist_new_1 /\ exist_new_2)

\* lib.rs line 85: a final path exists and the parents differ
CollisionCheck(same_dir, exist_new_1, exist_new_2) ==
    ~same_dir /\ (exist_new_1 \/ exist_new_2)

\* lines 112-136 with the nested calls running the containing entry first
StrategyAncestorFirst(is_file1, is_file2, mode) ==
    CASE is_file1 /\ is_file2 -> <<FALSE, TRUE>>
      [] ~is_file1 /\ ~is_file2 ->
            IF mode = 1 THEN <<TRUE, TRUE>>
            ELSE IF mode = 2 THEN <<TRUE, FALSE>>
            ELSE <<FALSE, TRUE>>
      [] is_file1 /\ ~is_file2 ->
            IF mode = 2 THEN <<TRUE, FALSE>> ELSE <<FALSE, TRUE>>
      [] OTHER ->
            IF mode = 1 THEN <<TRUE, TRUE>> ELSE <<FALSE, FALSE>>

\* lib.rs lines 112-136: <<is_nested, file1_first>> passed to rename_each
Strategy(is_file1, is_file2, mode) ==
    CASE is_file1 /\ is_file2 -> <<FALSE, TRUE>>
      [] ~is_file1 /\ ~is_file2 ->
            IF mode = 1 THEN <<TRUE, FALSE>>
            ELSE IF mode = 2 THEN <<TRUE, TRUE>>
            ELSE <<FALSE, TRUE>>
      [] is_file1 /\ ~is_file2 ->
            IF mode = 2 THEN <<TRUE, TRUE>> ELSE <<FALSE, TRUE>>
      [] OTHER ->
            IF mode = 1 THEN <<TRUE, FALSE>> ELSE <<FALSE, FALSE>>

\* one FileInfos of all_infos, from its metadata and its <<temporary, final>>
FileInfo(path, is_file, md, names) ==
    [is_exist |-> TRUE, is_file |-> is_file,
     name |-> md.name, ext |-> md.ext, parent_dir |-> md.parent_dir,
     original_path |-> path, new_path |-> names[2], pre_path |-> names[1]]

\* lib.rs lines 62-77: the names each entry gets from the other's metadata
NamedInfos(path1, path2, files, md) ==
    [f1 |-> FileInfo(path1, files[1], md[1],
                     make_name(md[1].parent_dir, md[2].name, md[1].ext)),
     f2 |-> FileInfo(path2, files[2], md[2],
                     make_name(md[2].parent_dir, md[1].name, md[2].ext))]

\* lib.rs lines 59-60: the metadata of both paths
FiledInfos(path1, path2, files) ==
    NamedInfos(path1, path2, files,
               metadata_collect(path1, path2, files[1], files[2]))

\* lib.rs lines 54-77: all_infos once both paths are known to exist
CollectInfos(f, path1, path2) ==
    FiledInfos(path1, path2, if_file(f, path1, path2))

\* exchange returns before rename_each is called
Return(code, infos) ==
    /\ pc' = "done"
    /\ result' = code
    /\ all_infos' = infos
    /\ UNCHANGED <<fs, is_nested, file1_first, step>>

\* lib.rs lines 112-136: rename_each is called with the strategy
Start(infos, strategy) ==
    /\ pc' = "rename"
    /\ all_infos' = infos
    /\ is_nested' = strategy[1]
    /\ file1_first' = strategy[2]
    /\ step' = 1
    /\ UNCHANGED <<fs, result>>

\* lib.rs lines 79-136: the collision check, then the renames
Plan(infos) ==
    IF CollisionCheck(if_same_dir(infos.f1.new_path, infos.f2.new_path),
                      Exists(fs, infos.f1.new_path),
                      Exists(fs, infos.f2.new_path))
    THEN Return(3, infos)
    ELSE Start(infos, Strategy(infos.f1.is_file, infos.f2.is_file,
                               if_root(infos.f1.original_path,
                                       infos.f2.original_path)))

\* lib.rs lines 47-53: the existence and identity checks
Checked(path1, path2, exist) ==
    IF MissingCheck(exist[1], exist[2])
    THEN Return(1, [f1 |-> [DefaultInfo EXCEPT !.is_exist = exist[1]],
                    f2 |-> [DefaultInfo EXCEPT !.is_exist = exist[2]]])
    ELSE IF IdentityCheck(path1, path2)
    THEN Return(2, [f1 |-> [DefaultInfo EXCEPT !.is_exist = TRUE],
                    f2 |-> [DefaultInfo EXCEPT !.is_exist = TRUE]])
    ELSE Plan(CollectInfos(fs, path1, path2))

\* exchange up to its call of rename_each (lib.rs lines 20-136)
Begin(path1, path2) ==
    /\ packed_path' = [path1 |-> path1, path2 |-> path2]
    /\ log' = << >>
    /\ Checked(path1, path2, if_exist(fs, path1, path2))

\* the paths a caller passes: any entry, or a name of the root directory
ArgPaths(f) == DOMAIN f \cup { <<n>> : n \in { <<"a">>, <<"b">> } }

\* a call of exchange(path1, path2)
exchange(path1, path2) ==
    /\ pc = "idle"
    /\ Begin(path1, path2)
    /\ pre' = fs
    /\ UNCHANGED <<prepre, chained>>

\* after a successful exchange, a call of exchange on the two new paths
exchange_again ==
    /\ pc = "done"
    /\ result = 0
    /\ Begin(all_infos.f1.new_path, all_infos.f2.new_path)
    /\ pre' = fs
    /\ prepre' = pre
    /\ chained' = TRUE

\* one std::fs::rename(from, to) through handle_rename, and what rename_each
\* does with the code it gets (file_rename.rs lines 151-177, 192-207)
RenameCall(from, to, last) ==
    \E res \in OsResults(fs, from, to) \cup EnvFaults :
        /\ fs' = IF res = "Ok" THEN FsRename(fs, from, to) ELSE fs
        /\ log' = Append(log, [from |-> from, to |-> to, res |-> res,
                               env |-> res \notin OsResults(fs, from, to)])
        /\ IF handle_rename(res) # 0
           THEN /\ pc' = "done"
                /\ result' = handle_rename(res)
                /\ UNCHANGED step
           ELSE IF last
           THEN /\ pc' = "done"
                /\ result' = 0
                /\ UNCHANGED step
           ELSE /\ step' = step + 1
                /\ UNCHANGED <<pc, result>>

\* the step-th rename of the list
RenameStep(steps) ==
    RenameCall(steps[step][1], steps[step][2], step = Len(steps))

\* the next std::fs::rename of rename_each (file_rename.rs lines 132-179)
rename_each ==
    /\ pc = "rename"
    /\ RenameStep(RenameSteps(all_infos, is_nested, file1_first))
    /\ UNCHANGED <<packed_path, all_infos, is_nested, file1_first,
                   pre, prepre, chained>>

Init ==
    /\ fs \in Filesystems
    /\ pc = "idle"
    /\ packed_path = [path1 |-> Root, path2 |-> Root]
    /\ all_infos = NewNameExchange
    /\ is_nested = FALSE
    /\ file1_first = FALSE
    /\ step = 0
    /\ result = 0
    /\ log = << >>
    /\ pre = fs
    /\ prepre = fs
    /\ chained = FALSE

Next ==
    \/ \E path1 \in ArgPaths(fs) : \E path2 \in ArgPaths(fs) :
          exchange(path1, path2)
    \/ exchange_again
    \/ rename_each

Spec == Init /\ [][Next]_vars

(***************************************************************************)
(* Vocabulary of the properties.                                           *)
(***************************************************************************)
Done == pc = "done"

\* the two entries of the running call
EntryA == packed_path.path1

EntryB == packed_path.path2

BothExisted == EntryA \in DOMAIN pre /\ EntryB \in DOMAIN pre

\* a file's extension is its name from the last dot on, unless the name has no
\* dot or only a leading one; a directory has none
ExtOf(f, p) ==
    LET n == file_name(p)
    IN  IF IsDir(f, p) \/ LastDot(n) <= 1 THEN << >>
        ELSE SubSeq(n, LastDot(n), Len(n))

\* the stem is the rest of the name
StemOf(f, p) ==
    LET n == file_name(p)
    IN  SubSeq(n, 1, Len(n) - Len(ExtOf(f, p)))

\* the final path of p when it takes the stem of q
FinalOf(f, p, q) == Append(parent(p), StemOf(f, q) \o ExtOf(f, p))

\* the staging path of p
StagingOf(f, p) == Append(parent(p), GUID \o ExtOf(f, p))

\* where path p lies once the directory anc has become ancNew
Relocated(anc, ancNew, p) ==
    IF IsPrefix(anc, p) THEN ancNew \o SubSeq(p, Len(anc) + 1, Len(p)) ELSE p

\* where entry p is expected after its exchange with q: at its final path,
\* inside the renamed q when q is an ancestor of p
ExpectedAt(f, p, q) ==
    IF IsPrefix(q, p) THEN Relocated(q, FinalOf(f, q, p), FinalOf(f, p, q))
    ELSE FinalOf(f, p, q)

HasContent(f, p, id) == p \in DOMAIN f /\ f[p].id = id

\* no rename of the running call failed for a reason outside the namespace
NoEnvFault == \A i \in 1..Len(log) : ~log[i].env

(***************************************************************************)
(* C1: whenever exchange(A, B) returns 0, A's original content is at       *)
(* parent(A)/(stem(B)+ext(A)) and B's original content is at               *)
(* parent(B)/(stem(A)+ext(B)) (inside the renamed ancestor when one entry  *)
(* contains the other), so neither content was lost.                       *)
(***************************************************************************)
C1_Bijection ==
    (Done /\ result = 0) =>
        /\ HasContent(fs, ExpectedAt(pre, EntryA, EntryB), pre[EntryA].id)
        /\ HasContent(fs, ExpectedAt(pre, EntryB, EntryA), pre[EntryB].id)

(***************************************************************************)
(* C2: when exchange(A, B) returned 0 and exchange on the two resulting    *)
(* paths returns 0 as well, the filesystem is the one before the first     *)
(* call: both entries carry their original names again.                    *)
(***************************************************************************)
C2_Involution ==
    (Done /\ result = 0 /\ chained) => fs = prepre

(***************************************************************************)
(* C3 as claimed: exchange(P, P) returns 2 and leaves the filesystem       *)
(* unchanged, whether or not P exists.                                     *)
(***************************************************************************)
C3_IdentityAlways ==
    (Done /\ EntryA = EntryB) => (result = 2 /\ log = << >> /\ fs = pre)

(***************************************************************************)
(* C3 amended: exchange(P, P) issues no rename and leaves the filesystem   *)
(* unchanged; it returns 2 when P exists and 1 when P does not exist.      *)
(***************************************************************************)
C3_Identity ==
    (Done /\ EntryA = EntryB) =>
        /\ log = << >>
        /\ fs = pre
        /\ result = (IF EntryA \in DOMAIN pre THEN 2 ELSE 1)

C3_Witness ==
    Done /\ EntryA = EntryB /\ EntryA \in DOMAIN pre /\ result = 2

(***************************************************************************)
(* C4: when one of the two paths does not exist, exchange returns 1, no    *)
(* rename is issued and the filesystem is unchanged; and 1 is never        *)
(* returned once a rename has been issued.                                 *)
(***************************************************************************)
C4_MissingPath ==
    Done =>
        /\ ~BothExisted => (result = 1 /\ log = << >> /\ fs = pre)
        /\ result = 1 => log = << >>

C4_Witness ==
    Done /\ EntryA \in DOMAIN pre /\ EntryB \notin DOMAIN pre /\ result = 1

\* the two entries existed and are distinct
Distinct == BothExisted /\ EntryA # EntryB

\* one entry is a directory that contains the other
NestedPair == Distinct /\ (IsPrefix(EntryA, EntryB) \/ IsPrefix(EntryB, EntryA))

FinalA == FinalOf(pre, EntryA, EntryB)

FinalB == FinalOf(pre, EntryB, EntryA)

\* an entry other than the two exchanged ones lies at path d
UnrelatedAt(d) == d \in DOMAIN pre /\ d \notin {EntryA, EntryB}

(***************************************************************************)
(* C5: for two distinct existing entries with different parents, when a    *)
(* final destination already exists exchange returns 3, no rename is       *)
(* issued and the filesystem is unchanged.                                 *)
(***************************************************************************)
C5_Collision ==
    ( /\ Done
      /\ Distinct
      /\ parent(EntryA) # parent(EntryB)
      /\ (FinalA \in DOMAIN pre \/ FinalB \in DOMAIN pre) )
    => (result = 3 /\ log = << >> /\ fs = pre)

C5_Witness ==
    /\ Done
    /\ Distinct
    /\ parent(EntryA) # parent(EntryB)
    /\ UnrelatedAt(FinalA)
    /\ FinalB \notin DOMAIN pre
    /\ result = 3

(***************************************************************************)
(* C6: exchange rejects a call with code 3 only when a final destination   *)
(* exists and is not one of the two entries being exchanged.               *)
(***************************************************************************)
C6_OnlyUnrelated ==
    (Done /\ result = 3 /\ log = << >>) =>
        (UnrelatedAt(FinalA) \/ UnrelatedAt(FinalB))

(***************************************************************************)
(* C7: whatever exchange(A, B) returns, every entry that existed before    *)
(* the call and is neither A nor B nor inside them is still at its path    *)
(* with its content.                                                       *)
(***************************************************************************)
C7_Frame ==
    Done =>
        \A q \in DOMAIN pre :
            (~IsPrefix(EntryA, q) /\ ~IsPrefix(EntryB, q)) =>
                (q \in DOMAIN fs /\ fs[q] = pre[q])

\* of a nested pair: the containing directory and the entry inside it
Outer == IF IsPrefix(EntryA, EntryB) THEN EntryA ELSE EntryB

Inner == IF IsPrefix(EntryA, EntryB) THEN EntryB ELSE EntryA

\* the directory under the inner entry's stem, in its own parent
NewOuter == Append(parent(Outer), StemOf(pre, Inner))

\* the inner entry under the directory's name and its own extension, at the
\* same place relative to the renamed directory
NewInner ==
    Relocated(Outer, NewOuter,
              Append(parent(Inner), file_name(Outer) \o ExtOf(pre, Inner)))

\* the tree a successful exchange of a nested pair leaves
NestedTree ==
    /\ HasContent(fs, NewOuter, pre[Outer].id)
    /\ IsDir(fs, NewOuter)
    /\ HasContent(fs, NewInner, pre[Inner].id)
    /\ fs[NewInner].kind = pre[Inner].kind
    /\ Outer \notin DOMAIN fs
    /\ Inner \notin DOMAIN fs

StagingPaths == {StagingOf(pre, EntryA), StagingOf(pre, EntryB)}

(***************************************************************************)
(* C8 as claimed: after a successful exchange of a directory and an entry  *)
(* inside it, the directory carries the inner entry's stem, the inner      *)
(* entry carries the directory's name and its own extension at the same    *)
(* place inside the renamed directory, neither original path exists, and   *)
(* no entry exists at any staging path.                                    *)
(***************************************************************************)
C8_NestedNoStagingEntry ==
    (Done /\ result = 0 /\ NestedPair) =>
        /\ NestedTree
        /\ \A t \in StagingPaths : t \notin DOMAIN fs

(***************************************************************************)
(* C8 amended: as claimed, except that an entry may lie at a staging path  *)
(* when it lay there before the call, or when it is the renamed directory  *)
(* itself (the inner entry's stem is the reserved name).                   *)
(***************************************************************************)
C8_Nested ==
    (Done /\ result = 0 /\ NestedPair) =>
        /\ NestedTree
        /\ \A t \in StagingPaths :
              t \in DOMAIN fs =>
                  \/ (t \in DOMAIN pre /\ fs[t] = pre[t])
                  \/ t = NewOuter

C8_Witness ==
    /\ Done
    /\ result = 0
    /\ NestedPair
    /\ Len(Inner) = Len(Outer) + 2
    /\ IsFile(pre, Inner)
    /\ ExtOf(pre, Inner) # << >>
    /\ LastDot(file_name(Outer)) > 1

\* no entry other than the two lies at a final or a staging path
NoInterference ==
    \A d \in {FinalA, FinalB} \cup StagingPaths : ~UnrelatedAt(d)

SiblingFiles ==
    /\ Distinct
    /\ IsFile(pre, EntryA)
    /\ IsFile(pre, EntryB)
    /\ parent(EntryA) = parent(EntryB)

(***************************************************************************)
(* C9: for two distinct files of one directory, when no other entry is in  *)
(* the way and the operating system fails no rename, exchange returns 0,   *)
(* both new names exist, each original name is gone unless it is one of    *)
(* the new names, and no entry exists at a staging path.                   *)
(***************************************************************************)
C9_Sibling ==
    (Done /\ SiblingFiles /\ NoInterference /\ NoEnvFault) =>
        /\ result = 0
        /\ FinalA \in DOMAIN fs
        /\ FinalB \in DOMAIN fs
        /\ \A o \in {EntryA, EntryB} :
              o \in DOMAIN fs => o \in {FinalA, FinalB}
        /\ \A t \in StagingPaths : t \notin DOMAIN fs

\* the number of renames of the strategy that fits the two paths
StrategySteps ==
    IF IsPrefix(EntryA, EntryB) \/ IsPrefix(EntryB, EntryA) THEN 2 ELSE 3

(***************************************************************************)
(* C10: exchange returns 0, 1, 2, 3 or 255; a rename that fails with       *)
(* permission denied yields 2, with destination-already-exists 3, with any *)
(* other failure 255; and 0 is returned only when every rename of the      *)
(* selected strategy succeeded.                                            *)
(***************************************************************************)
C10_Taxonomy ==
    Done =>
        /\ result \in {0, 1, 2, 3, 255}
        /\ \A i \in 1..Len(log) :
              /\ log[i].res = "PermissionDenied" => (i = Len(log) /\ result = 2)
              /\ log[i].res = "AlreadyExists" => (i = Len(log) /\ result = 3)
              /\ log[i].res = "Other" => (i = Len(log) /\ result = 255)
        /\ result = 0 =>
              /\ Len(log) = StrategySteps
              /\ \A i \in 1..Len(log) : log[i].res = "Ok"

C10_Witness ==
    /\ Done
    /\ Len(log) = 2
    /\ log[1].res = "Ok"
    /\ log[2].res = "PermissionDenied"
    /\ result = 2

\* the running call has issued a rename
Renaming == log # << >>

\* the renames issued so far begin with one of p and go on with one of q
IssuedInOrder(p, q) ==
    /\ log[1].from = p
    /\ Len(log) >= 2 => log[2].from = q

(***************************************************************************)
(* C11 as claimed: in a nested swap the containing entry is renamed first: *)
(* entry1 then entry2 when the first path contains the second, entry2 then *)
(* entry1 when the second path contains the first.                         *)
(***************************************************************************)
C11_AncestorFirst ==
    (Renaming /\ NestedPair) =>
        /\ IsPrefix(EntryA, EntryB) => IssuedInOrder(EntryA, EntryB)
        /\ IsPrefix(EntryB, EntryA) => IssuedInOrder(EntryB, EntryA)

(***************************************************************************)
(* C11 amended: in a nested swap the contained entry is renamed first:     *)
(* entry2 then entry1 when the first path contains the second, entry1 then *)
(* entry2 when the second path contains the first; each rename goes from   *)
(* the entry's original path to its final path, and there are at most two. *)
(***************************************************************************)
C11_DescendantFirst ==
    (Renaming /\ NestedPair) =>
        /\ IsPrefix(EntryA, EntryB) => IssuedInOrder(EntryB, EntryA)
        /\ IsPrefix(EntryB, EntryA) => IssuedInOrder(EntryA, EntryB)
        /\ log[1].to = FinalOf(pre, Inner, Outer)
        /\ Len(log) >= 2 => log[2].to = FinalOf(pre, Outer, Inner)
        /\ Len(log) <= 2

C11_Witness ==
    /\ Done
    /\ result = 0
    /\ NestedPair
    /\ IsPrefix(EntryA, EntryB)
    /\ IsFile(pre, EntryB)
    /\ Len(log) = 2
    /\ log[1].from = EntryB
    /\ log[2].from = EntryA

\* neither entry contains the other
Unnested == Distinct /\ ~NestedPair

\* of an unnested pair: the entry renamed directly, and the staged one
FirstToExecute ==
    IF IsDir(pre, EntryA) /\ IsFile(pre, EntryB) THEN EntryB ELSE EntryA

SecondToExecute ==
    IF IsDir(pre, EntryA) /\ IsFile(pre, EntryB) THEN EntryA ELSE EntryB

StagingPath == StagingOf(pre, SecondToExecute)

\* the three renames of the staged swap
StagedProtocol ==
    << [from |-> SecondToExecute, to |-> StagingPath],
       [from |-> FirstToExecute,
        to |-> FinalOf(pre, FirstToExecute, SecondToExecute)],
       [from |-> StagingPath,
        to |-> FinalOf(pre, SecondToExecute, FirstToExecute)] >>

\* the source and destination of the renames issued so far
Issued == [i \in 1..Len(log) |-> [from |-> log[i].from, to |-> log[i].to]]

AllOk == \A i \in 1..Len(log) : log[i].res = "Ok"

(***************************************************************************)
(* C12: when neither entry contains the other, the renames issued are, in  *)
(* this order, the second-to-execute entry's original path to its own      *)
(* staging path, the first-to-execute entry's original path to its final   *)
(* path, and the staging path to the second entry's final path; the call   *)
(* ends with exactly these three unless one of them fails; the first to    *)
(* execute is entry1, except that it is entry2 when entry1 is a directory  *)
(* and entry2 is a file.                                                   *)
(***************************************************************************)
C12_StagedProtocol ==
    (Renaming /\ Unnested) =>
        /\ Len(log) <= 3
        /\ Issued = SubSeq(StagedProtocol, 1, Len(log))
        /\ (Done /\ AllOk) => Len(log) = 3
        /\ ~Done => (AllOk /\ Len(log) < 3)

C12_Witness ==
    /\ Done
    /\ result = 0
    /\ Unnested
    /\ IsDir(pre, EntryA)
    /\ IsFile(pre, EntryB)
    /\ parent(EntryA) # parent(EntryB)
    /\ Len(log) = 3
    /\ log[1].from = EntryA
    /\ log[2].from = EntryB

\* one resolved path is a component-wise prefix of the other
OneContainsOther == IsPrefix(EntryA, EntryB) \/ IsPrefix(EntryB, EntryA)

\* the running call has reached its rename phase
InRenamePhase == pc = "rename" \/ Renaming

\* a rename issued so far goes to or from a staging path
TouchesStaging ==
    \E i \in 1..Len(log) :
        log[i].from \in StagingPaths \/ log[i].to \in StagingPaths

\* one of the two entries bears the reserved name as its stem
ReservedStem ==
    StemOf(pre, EntryA) = GUID \/ StemOf(pre, EntryB) = GUID

(***************************************************************************)
(* C13 as claimed: in the rename phase the nested strategy is used if and  *)
(* only if one resolved path is a component-wise prefix of the other, and  *)
(* no rename to or from a staging path is issued when one entry is an      *)
(* ancestor of the other.                                                  *)
(***************************************************************************)
C13_NoStagingPathAtAll ==
    InRenamePhase =>
        /\ is_nested <=> OneContainsOther
        /\ OneContainsOther => ~TouchesStaging

(***************************************************************************)
(* C13 amended: as claimed, except that a rename of the nested strategy    *)
(* may go to or from a staging path when one of the two entries bears the  *)
(* reserved name as its stem (the staging path is then an entry's original *)
(* or final path); the renames are always the two direct ones.             *)
(***************************************************************************)
C13_Selection ==
    InRenamePhase =>
        /\ is_nested <=> OneContainsOther
        /\ OneContainsOther =>
              /\ TouchesStaging => ReservedStem
              /\ \A i \in 1..Len(log) :
                    \/ /\ log[i].from = Inner
                       /\ log[i].to = FinalOf(pre, Inner, Outer)
                    \/ /\ log[i].from = Outer
                       /\ log[i].to = FinalOf(pre, Outer, Inner)

C13_Witness ==
    /\ Done
    /\ result = 0
    /\ is_nested
    /\ IsPrefix(EntryB, EntryA)
    /\ IsDir(pre, EntryA)
    /\ Len(log) = 2
    /\ ~TouchesStaging

\* the filesystem f after the first n renames of the log, each applied when
\* it succeeded
RECURSIVE Applied(_, _)
Applied(f, n) ==
    IF n = 0 THEN f
    ELSE IF log[n].res = "Ok"
         THEN FsRename(Applied(f, n - 1), log[n].from, log[n].to)
         ELSE Applied(f, n - 1)

\* the call ended because rename k of a staged swap failed
StagedFailure(k) ==
    Done /\ Unnested /\ Len(log) = k /\ log[k].res # "Ok"

(***************************************************************************)
(* C14: when rename k of the selected strategy fails, exchange returns the *)
(* code of that failure, no later rename is issued and the renames before  *)
(* it stay applied; a staged swap that fails at its first rename leaves    *)
(* the filesystem unchanged, one that fails at its second or third rename  *)
(* leaves the second-to-execute entry at its staging path, and one that    *)
(* fails at its third rename leaves the first entry at its final path.     *)
(***************************************************************************)
C14_FailFast ==
    (Done /\ Renaming) =>
        /\ \A i \in 1..Len(log) :
              log[i].res # "Ok" =>
                  /\ i = Len(log)
                  /\ result = handle_rename(log[i].res)
                  /\ result # 0
        /\ fs = Applied(pre, Len(log))
        /\ StagedFailure(1) => fs = pre
        /\ (StagedFailure(2) \/ StagedFailure(3)) =>
              HasContent(fs, StagingPath, pre[SecondToExecute].id)
        /\ StagedFailure(3) =>
              HasContent(fs, FinalOf(pre, FirstToExecute, SecondToExecute),
                         pre[FirstToExecute].id)

\* the rename that rename_each issues next
NextRename == RenameSteps(all_infos, is_nested, file1_first)[step]

\* path p holds the content of one of the two entries
HoldsEntry(p) ==
    p \in DOMAIN fs /\ fs[p].id \in {pre[EntryA].id, pre[EntryB].id}

(***************************************************************************)
(* C15: whenever a rename of a staged swap is about to be issued, its      *)
(* destination does not hold the content of one of the two entries (unless *)
(* it is the rename's own source); the two final paths are distinct, and   *)
(* the staging path differs from both final paths and from the first       *)
(* entry's original path.                                                  *)
(***************************************************************************)
C15_NoOverwrite ==
    (pc = "rename" /\ ~is_nested) =>
        /\ NextRename[2] # NextRename[1] => ~HoldsEntry(NextRename[2])
        /\ FinalA # FinalB
        /\ StagingPath \notin {FinalA, FinalB}
        /\ StagingPath # FirstToExecute

\* a rename of a nested swap is about to be issued
NestedRenameDue == pc = "rename" /\ is_nested

\* the entry that the next rename of a nested swap is meant for
DueEntry == IF step = 1 THEN Inner ELSE Outer

(***************************************************************************)
(* C16: in a nested swap the contained entry is renamed first and the      *)
(* containing directory second (entry2 first when path1 contains path2,    *)
(* entry1 first when path2 contains path1); whenever one of the two        *)
(* renames is about to be issued, its source is the original path of the   *)
(* entry it is meant for and that path still holds that entry, so the      *)
(* first rename does not invalidate the source path of the second.         *)
(***************************************************************************)
C16_SourcesValid ==
    NestedRenameDue =>
        /\ NestedPair
        /\ file1_first <=> IsPrefix(EntryB, EntryA)
        /\ NextRename[1] = DueEntry
        /\ HasContent(fs, DueEntry, pre[DueEntry].id)
        /\ fs[DueEntry].kind = pre[DueEntry].kind

C16_Witness ==
    /\ NestedRenameDue
    /\ step = 2
    /\ IsPrefix(EntryA, EntryB)
    /\ IsDir(pre, EntryB)
    /\ log[1].from = EntryB
    /\ log[1].res = "Ok"
    /\ EntryB \notin DOMAIN fs
====
